---- MODULE Spec2Model ----
(***************************************************************************)
(* timedflock: a file lock with timeout.  A requester object               *)
(* (TimedFileLock) never takes the flock itself; it spawns a holder        *)
(* process (the __main__ part of the same file) that takes the flock,      *)
(* writes 'locked\n' on success and then waits to be told to release.      *)
(*                                                                         *)
(* Both generations are modelled: timedflock.py (gen = 1) and              *)
(* timedflock2.py (gen = 2).  All requesters use the same lock file.       *)
(* Every requester lives in a process of its own.                          *)
(***************************************************************************)
EXTENDS Integers, FiniteSets, Sequences, TLC

NReq == 2        \* number of TimedFileLock objects (one per requester process)
MaxProc == 2     \* number of holder processes that can be spawned in a run

Req == 1..NReq
Proc == 1..MaxProc
None == 0        \* Python None for self._subproc / proc / "no owner yet"
NoTimeout == -1  \* config['timeout'] is None
PosTimeout == 1  \* some timeout > 0

Gens == {1, 2}
TimeoutVals == {NoTimeout, 0, PosTimeout}
Sentinel == "locked\n"           \* what _try_lock compares the line with
SentinelWritten_no_newline == "locked"   \* a slip: the line end is missing
SentinelWritten == "locked\n"    \* what the holder writes

VARIABLES
    cfg,        \* cfg[r]: self._config plus the module generation of r
    rpc,        \* rpc[r]: where requester r is: idle, readline, wait, unlocking, dead
    subproc,    \* subproc[r]: self._subproc (a holder id or None)
    proc,       \* proc[r]: the local variable proc of _try_lock
    last_exit,  \* last_exit[r]: how r's latest __exit__ / _unlock call went, none
                \*   if there was no such call since the latest __enter__:
                \*   noop, released, raised (AttributeError on None.poll())
    owner,      \* owner[h]: the requester that spawned holder h, None if unborn
    hpc,        \* hpc[h]: position of the holder's main thread
    locked,     \* locked[h]: the holder's local variable locked
    errno,      \* errno[h]: how h's flock call ended: none (not yet), ok,
                \*   EWOULDBLOCK, EINTR, ENOLCK, KeyboardInterrupt (the
                \*   except clause drops it)
    held,       \* held[h]: the flock that h's open file description holds
    timer,      \* timer[h]: ITIMER_REAL of h is armed
    stdin,      \* stdin[h]: h's input pipe: open, quit (token then EOF), eof
    out,        \* out[h]: the lines h has written to its stdout
    exit_event, \* exit_event[h]: the threading.Event of timedflock2
    wpc,        \* wpc[h]: the watcher thread: read (in stdin.read()) or done
    status      \* status[h]: running, exit0, exit1, killed

vars == <<cfg, rpc, subproc, proc, last_exit, owner, hpc, locked, errno, held,
          timer, stdin, out, exit_event, wpc, status>>
rvars == <<rpc, subproc, proc>>
pvars == <<hpc, held, timer, locked, errno, exit_event, wpc, stdin, status>>

Configs == [gen : Gens, shared : BOOLEAN, timeout : TimeoutVals]

Init ==
    /\ cfg \in [Req -> Configs]
    /\ rpc = [r \in Req |-> "idle"]
    /\ subproc = [r \in Req |-> None]
    /\ proc = [r \in Req |-> None]
    /\ last_exit = [r \in Req |-> "none"]
    /\ owner = [h \in Proc |-> None]
    /\ hpc = [h \in Proc |-> "unborn"]
    /\ locked = [h \in Proc |-> FALSE]
    /\ errno = [h \in Proc |-> "none"]
    /\ held = [h \in Proc |-> "none"]
    /\ timer = [h \in Proc |-> FALSE]
    /\ stdin = [h \in Proc |-> "open"]
    /\ out = [h \in Proc |-> <<>>]
    /\ exit_event = [h \in Proc |-> FALSE]
    /\ wpc = [h \in Proc |-> "read"]
    /\ status = [h \in Proc |-> "running"]

----
\* Helpers

hcfg(h) == cfg[owner[h]]

\* proc.poll() is None
Alive(h) == hpc[h] \notin {"unborn", "exited"}

\* a slip: LOCK_SH whatever config['shared'] says
lock_op_always_shared(h) == "SH"

\* a slip: LOCK_EX whatever config['shared'] says
lock_op_always_exclusive(h) == "EX"

\* lock_op without the LOCK_NB bit
lock_op(h) == IF hcfg(h).shared THEN "SH" ELSE "EX"

\* a slip: LOCK_NB is never added
NonBlocking_never(h) == FALSE

\* the LOCK_NB bit of lock_op
NonBlocking(h) == hcfg(h).timeout # NoTimeout /\ ~(hcfg(h).timeout > 0)

\* the timer is armed for this config
ArmsTimer(h) == hcfg(h).timeout # NoTimeout /\ hcfg(h).timeout > 0

\* flock(2): a shared lock is compatible with shared locks of other open
\* file descriptions, an exclusive lock with none.
CanGrant(h) ==
    \A g \in Proc \ {h} :
        \/ held[g] = "none"
        \/ held[g] = "SH" /\ lock_op(h) = "SH"

\* the process ends: the kernel drops its flock, its timer, its memory
\* (locked, exit_event, the watcher thread) and its end of the input pipe
Exited(h, code) ==
    /\ hpc' = [hpc EXCEPT ![h] = "exited"]
    /\ held' = [held EXCEPT ![h] = "none"]
    /\ timer' = [timer EXCEPT ![h] = FALSE]
    /\ stdin' = [stdin EXCEPT ![h] = "eof"]
    /\ locked' = [locked EXCEPT ![h] = FALSE]
    /\ errno' = [errno EXCEPT ![h] = "none"]
    /\ exit_event' = [exit_event EXCEPT ![h] = FALSE]
    /\ wpc' = [wpc EXCEPT ![h] = "done"]
    /\ status' = [status EXCEPT ![h] = code]

\* where the main thread is after a handler that returns has run outside
\* flock: where it was, except that signal.pause() has returned
AfterHandler(h) == IF hpc[h] = "paused" THEN "unlock" ELSE hpc[h]

\* locked()
IsLocked(r) == subproc[r] # None

Unborn == {h \in Proc : owner[h] = None}
NextProc == CHOOSE h \in Unborn : \A g \in Unborn : h <= g

----
\* The requester: class TimedFileLock

\* a slip: the except branch leaves the killed child in proc
ExceptProc_keeps(r) == proc[r]

\* the value of proc when the except branch of _try_lock is left:
\* timedflock2 clears it always, timedflock only after killing a live child
ExceptProc(r) ==
    IF cfg[r].gen = 2 THEN None
    ELSE IF proc[r] # None /\ Alive(proc[r]) THEN None ELSE proc[r]

\* __enter__ -> _try_lock: Popen succeeds; the child starts with the
\* handlers installed and the watcher thread started, about to open the file
try_lock_Popen(r) ==
    /\ rpc[r] = "idle"
    /\ Unborn # {}
    /\ LET h == NextProc IN
        /\ owner' = [owner EXCEPT ![h] = r]
        /\ hpc' = [hpc EXCEPT ![h] = "start"]
        /\ proc' = [proc EXCEPT ![r] = h]
    /\ rpc' = [rpc EXCEPT ![r] = "readline"]
    /\ last_exit' = [last_exit EXCEPT ![r] = "none"]
    /\ UNCHANGED <<cfg, subproc, locked, errno, held, timer, stdin, out,
                   exit_event, wpc, status>>

\* __enter__ -> _try_lock: Popen raises (fork or exec failure); the except
\* branch finds proc None and self._subproc becomes None
try_lock_Popen_fails(r) ==
    /\ rpc[r] = "idle"
    /\ subproc' = [subproc EXCEPT ![r] = None]
    /\ last_exit' = [last_exit EXCEPT ![r] = "none"]
    /\ UNCHANGED <<cfg, rpc, proc, owner, hpc, locked, errno, held, timer,
                   stdin, out, exit_event, wpc, status>>

\* proc.stdout.readline() returns: the first line the child wrote, or
\* end of stream once the child has exited without writing
try_lock_readline(r) ==
    /\ rpc[r] = "readline"
    /\ LET h == proc[r] IN
        \/ /\ out[h] # <<>>
           /\ IF Head(out[h]) = Sentinel
              THEN /\ subproc' = [subproc EXCEPT ![r] = h]
                   /\ rpc' = [rpc EXCEPT ![r] = "idle"]
                   /\ proc' = [proc EXCEPT ![r] = None]
              ELSE /\ rpc' = [rpc EXCEPT ![r] = "wait"]
                   /\ UNCHANGED <<subproc, proc>>
        \/ /\ out[h] = <<>>
           /\ ~Alive(h)
           /\ rpc' = [rpc EXCEPT ![r] = "wait"]
           /\ UNCHANGED <<subproc, proc>>
    /\ UNCHANGED <<cfg, last_exit, owner, hpc, locked, errno, held, timer,
                   stdin, out, exit_event, wpc, status>>

\* a slip: proc is not cleared after proc.wait()
WaitProc_keeps(r) == proc[r]

\* the value of proc after "proc.wait(); proc = None"
WaitProc(r) == None

\* proc.wait() returns; proc = None; self._subproc = proc
try_lock_wait(r) ==
    /\ rpc[r] = "wait"
    /\ ~Alive(proc[r])
    /\ subproc' = [subproc EXCEPT ![r] = WaitProc(r)]
    /\ proc' = [proc EXCEPT ![r] = None]
    /\ rpc' = [rpc EXCEPT ![r] = "idle"]
    /\ UNCHANGED <<cfg, last_exit, owner, hpc, locked, errno, held, timer,
                   stdin, out, exit_event, wpc, status>>

\* an exception is raised while _try_lock is blocked in readline() or
\* wait() (e.g. KeyboardInterrupt): the except branch kills a live child
try_lock_except(r) ==
    /\ rpc[r] \in {"readline", "wait"}
    /\ LET h == proc[r] IN
        /\ IF Alive(h)
           THEN Exited(h, "killed")
           ELSE UNCHANGED pvars
        /\ subproc' = [subproc EXCEPT ![r] = ExceptProc(r)]
    /\ proc' = [proc EXCEPT ![r] = None]
    /\ rpc' = [rpc EXCEPT ![r] = "idle"]
    /\ UNCHANGED <<cfg, last_exit, owner, out>>

\* a slip: no test of self._subproc before poll()
PollsHandle_unguarded(r) == TRUE

\* is self._subproc.poll() evaluated by __exit__ / _unlock?  timedflock2's
\* _unlock evaluates it after "self._subproc is not None and";
\* timedflock's __exit__ calls _unlock, which starts with it, if locked()
PollsHandle(r) ==
    IF cfg[r].gen = 2 THEN subproc[r] # None ELSE IsLocked(r)

\* does _unlock talk to the child: poll() is evaluated and returns None
UnlockSignals(r) ==
    PollsHandle(r) /\ subproc[r] # None /\ Alive(subproc[r])

\* the release command.  timedflock2: communicate(b'quit') writes the token
\* and closes the pipe.  timedflock: send_signal(SIGINT); _handler runs in
\* the child at once: it ends signal.pause() if the child is inside it and
\* has no other effect if the child is not
SendRelease(r, h) ==
    IF cfg[r].gen = 2
    THEN /\ stdin' = [stdin EXCEPT ![h] = "quit"]
         /\ UNCHANGED hpc
    ELSE /\ hpc' = [hpc EXCEPT ![h] = AfterHandler(h)]
         /\ UNCHANGED stdin

\* __exit__ -> _unlock with a live child: send the release command and
\* start waiting for the child to exit
unlock_send(r) ==
    /\ rpc[r] = "idle"
    /\ UnlockSignals(r)
    /\ SendRelease(r, subproc[r])
    /\ rpc' = [rpc EXCEPT ![r] = "unlocking"]
    /\ last_exit' = [last_exit EXCEPT ![r] = "released"]
    /\ UNCHANGED <<cfg, subproc, proc, owner, locked, errno, held, timer, out,
                   exit_event, wpc, status>>

\* __exit__ -> _unlock with no child or a child that already exited:
\* self._subproc = None and nothing else (poll() on None would raise
\* AttributeError and leave self._subproc as it is)
unlock_noop(r) ==
    /\ rpc[r] = "idle"
    /\ ~UnlockSignals(r)
    /\ IF PollsHandle(r) /\ subproc[r] = None
       THEN /\ last_exit' = [last_exit EXCEPT ![r] = "raised"]
            /\ UNCHANGED subproc
       ELSE /\ last_exit' = [last_exit EXCEPT ![r] = "noop"]
            /\ subproc' = [subproc EXCEPT ![r] = None]
    /\ UNCHANGED <<cfg, rpc, proc, owner, hpc, locked, errno, held, timer,
                   stdin, out, exit_event, wpc, status>>

\* a slip: the token is written but the child's exit is not awaited
UnlockReturns_at_once(r) == TRUE

\* can _unlock return?  communicate() / wait() return when the child exited
UnlockReturns(r) == ~Alive(subproc[r])

\* _unlock returns: self._subproc = None
unlock_done(r) ==
    /\ rpc[r] = "unlocking"
    /\ UnlockReturns(r)
    /\ subproc' = [subproc EXCEPT ![r] = None]
    /\ rpc' = [rpc EXCEPT ![r] = "idle"]
    /\ UNCHANGED <<cfg, last_exit, proc, owner, hpc, locked, errno, held,
                   timer, stdin, out, exit_event, wpc, status>>

\* the requester process dies without releasing: the kernel closes its
\* ends of the pipes of all its children
die(r) ==
    /\ rpc[r] # "dead"
    /\ rpc' = [rpc EXCEPT ![r] = "dead"]
    /\ subproc' = [subproc EXCEPT ![r] = None]
    /\ proc' = [proc EXCEPT ![r] = None]
    /\ last_exit' = [last_exit EXCEPT ![r] = "none"]
    /\ stdin' = [h \in Proc |->
                    IF owner[h] = r /\ stdin[h] = "open" THEN "eof"
                    ELSE stdin[h]]
    /\ UNCHANGED <<cfg, owner, hpc, locked, errno, held, timer, out,
                   exit_event, wpc, status>>

----
\* The holder process: the __main__ part

gen(h) == hcfg(h).gen

\* with open(config['lockfile'], 'ab') as _file, the choice of lock_op and
\* signal.setitimer(signal.ITIMER_REAL, timeout[, 1]) if timeout > 0
holder_start(h) ==
    /\ hpc[h] = "start"
    /\ timer' = [timer EXCEPT ![h] = ArmsTimer(h)]
    /\ hpc' = [hpc EXCEPT ![h] = "call"]
    /\ UNCHANGED <<cfg, last_exit, rpc, subproc, proc, owner, locked, errno,
                   held, stdin, out, exit_event, wpc, status>>

\* open() raises (the lock file cannot be opened or created): the
\* exception is not caught and the process ends with status 1
holder_open_fails(h) ==
    /\ hpc[h] = "start"
    /\ Exited(h, "exit1")
    /\ UNCHANGED <<cfg, last_exit, rpc, subproc, proc, owner, out>>

\* fcntl.flock(lock_fd, lock_op) is entered: granted at once, refused at
\* once when LOCK_NB is set, or the thread blocks in the system call
holder_flock(h) ==
    /\ hpc[h] = "call"
    /\ IF CanGrant(h)
       THEN /\ held' = [held EXCEPT ![h] = lock_op(h)]
            /\ locked' = [locked EXCEPT ![h] = TRUE]
            /\ errno' = [errno EXCEPT ![h] = "ok"]
            /\ hpc' = [hpc EXCEPT ![h] = "reset"]
       ELSE IF NonBlocking(h)
       THEN /\ locked' = [locked EXCEPT ![h] = FALSE]
            /\ errno' = [errno EXCEPT ![h] = "EWOULDBLOCK"]
            /\ hpc' = [hpc EXCEPT ![h] = "reset"]
            /\ UNCHANGED held
       ELSE /\ hpc' = [hpc EXCEPT ![h] = "blocked"]
            /\ UNCHANGED <<held, locked, errno>>
    /\ UNCHANGED <<cfg, last_exit, rpc, subproc, proc, owner, timer, stdin, out,
                   exit_event, wpc, status>>

\* fcntl.flock raises for a reason other than contention or a signal
\* (e.g. ENOLCK): except: locked = False
holder_flock_fails(h) ==
    /\ hpc[h] = "call"
    /\ locked' = [locked EXCEPT ![h] = FALSE]
    /\ errno' = [errno EXCEPT ![h] = "ENOLCK"]
    /\ hpc' = [hpc EXCEPT ![h] = "reset"]
    /\ UNCHANGED <<cfg, last_exit, rpc, subproc, proc, owner, held, timer,
                   stdin, out, exit_event, wpc, status>>

\* the blocked flock is granted by the kernel
holder_granted(h) ==
    /\ hpc[h] = "blocked"
    /\ CanGrant(h)
    /\ held' = [held EXCEPT ![h] = lock_op(h)]
    /\ locked' = [locked EXCEPT ![h] = TRUE]
    /\ errno' = [errno EXCEPT ![h] = "ok"]
    /\ hpc' = [hpc EXCEPT ![h] = "reset"]
    /\ UNCHANGED <<cfg, last_exit, rpc, subproc, proc, owner, timer, stdin, out,
                   exit_event, wpc, status>>

\* the timer set by setitimer(ITIMER_REAL, timeout[, interval]) after it
\* has expired once: timedflock gives no interval (one shot), timedflock2
\* gives interval 1 (it fires again every second)
TimerAfterExpiry(h) == gen(h) = 2

\* ITIMER_REAL expires while the main thread is not inside flock: _handler
\* prints and returns, the main thread goes on where it was
alarm_handler(h) ==
    /\ Alive(h)
    /\ timer[h]
    /\ hpc[h] # "blocked"
    /\ timer' = [timer EXCEPT ![h] = TimerAfterExpiry(h)]
    /\ hpc' = [hpc EXCEPT ![h] = AfterHandler(h)]
    /\ UNCHANGED <<cfg, last_exit, rpc, subproc, proc, owner, locked,
                   errno, held, stdin, out, exit_event, wpc, status>>

\* ITIMER_REAL expires while the main thread is blocked in flock and the
\* call fails with EINTR (Python 2, Python 3 before 3.5):
\* except: locked = False
alarm_EINTR(h) ==
    /\ hpc[h] = "blocked"
    /\ timer[h]
    /\ timer' = [timer EXCEPT ![h] = TimerAfterExpiry(h)]
    /\ locked' = [locked EXCEPT ![h] = FALSE]
    /\ errno' = [errno EXCEPT ![h] = "EINTR"]
    /\ hpc' = [hpc EXCEPT ![h] = "reset"]
    /\ UNCHANGED <<cfg, last_exit, rpc, subproc, proc, owner, held, stdin, out,
                   exit_event, wpc, status>>

\* ITIMER_REAL expires while the main thread is blocked in flock; _handler
\* returns without raising and the interpreter calls flock again
\* (Python 3.5 and later, PEP 475)
alarm_restart(h) ==
    /\ hpc[h] = "blocked"
    /\ timer[h]
    /\ timer' = [timer EXCEPT ![h] = TimerAfterExpiry(h)]
    /\ UNCHANGED <<cfg, last_exit, rpc, subproc, proc, owner, hpc, locked,
                   errno, held, stdin, out, exit_event, wpc, status>>

\* where the main thread goes after the sentinel is flushed
AfterWrite(h) == IF gen(h) = 2 THEN "wait" ELSE "topause"

\* a slip: the timer is not reset
TimerAfterReset_stays(h) == timer[h]

\* is the timer still armed after the statement that resets it
TimerAfterReset(h) == FALSE

\* a slip: the sentinel is written whether or not flock succeeded
WritesSentinel_always(h) == TRUE

\* if locked: before the sentinel is written
WritesSentinel(h) == locked[h]

\* signal.setitimer(signal.ITIMER_REAL, 0), then the branch on locked:
\* with the lock, sys.stdout.write('locked\n') and flush; without it the
\* with block is left and the process ends.  With the reading end gone
\* (requester dead) the write raises: timedflock2 does not catch it and
\* ends with status 1, timedflock prints it, unlocks and ends
holder_reset(h) ==
    /\ hpc[h] = "reset"
    /\ IF ~WritesSentinel(h)
       THEN /\ Exited(h, "exit0")
            /\ UNCHANGED out
       ELSE IF rpc[owner[h]] # "dead"
       THEN /\ timer' = [timer EXCEPT ![h] = TimerAfterReset(h)]
            /\ out' = [out EXCEPT ![h] = Append(@, SentinelWritten)]
            /\ hpc' = [hpc EXCEPT ![h] = AfterWrite(h)]
            /\ UNCHANGED <<held, locked, errno, exit_event, wpc, stdin, status>>
       ELSE /\ Exited(h, IF gen(h) = 2 THEN "exit1" ELSE "exit0")
            /\ UNCHANGED out
    /\ UNCHANGED <<cfg, last_exit, rpc, subproc, proc, owner>>

\* a slip: the loop is left when exit_event.wait(5) times out
WaitEnds_on_timeout(h) == TRUE

\* does "while not exit_event.wait(5)" end?
WaitEnds(h) == exit_event[h]

\* timedflock2: while not exit_event.wait(5) ends once the event is set;
\* the with block closes the file (which frees the flock) and the
\* process ends with status 0
holder_wait_ends(h) ==
    /\ hpc[h] = "wait"
    /\ WaitEnds(h)
    /\ Exited(h, "exit0")
    /\ UNCHANGED <<cfg, last_exit, rpc, subproc, proc, owner, out>>

\* timedflock: signal.pause() is entered
holder_pause(h) ==
    /\ hpc[h] = "topause"
    /\ hpc' = [hpc EXCEPT ![h] = "paused"]
    /\ UNCHANGED <<cfg, last_exit, rpc, subproc, proc, owner, locked, errno,
                   held, timer, stdin, out, exit_event, wpc, status>>

\* timedflock: signal.pause() has returned:
\* if locked: fcntl.flock(lock_fd, fcntl.LOCK_UN); the with block is left
\* and the process ends with status 0
holder_unlock(h) ==
    /\ hpc[h] = "unlock"
    /\ Exited(h, "exit0")
    /\ UNCHANGED <<cfg, last_exit, rpc, subproc, proc, owner, out>>

\* a slip: the token is never recognised
WatcherQuits_never(h) == FALSE

\* a slip: end of stream is taken for the release command
WatcherQuits_always(h) == TRUE

\* what the watcher does with what stdin.read() returned: timedflock2 sets
\* the event for 'quit' and calls os._exit(1) otherwise, timedflock calls
\* os._exit(1) whatever was read
WatcherQuits(h) == gen(h) = 2 /\ stdin[h] = "quit"

\* a slip: the watcher thread is not started
ReadReturns_never(h) == FALSE

\* sys.stdin.read() in the watcher thread returns: at end of stream
ReadReturns(h) == wpc[h] = "read" /\ stdin[h] # "open"

\* _watcher: sys.stdin.read() returns at end of stream
watcher(h) ==
    /\ Alive(h)
    /\ ReadReturns(h)
    /\ IF WatcherQuits(h)
       THEN /\ exit_event' = [exit_event EXCEPT ![h] = TRUE]
            /\ wpc' = [wpc EXCEPT ![h] = "done"]
            /\ UNCHANGED <<hpc, held, timer, locked, errno, stdin, status>>
       ELSE Exited(h, "exit1")
    /\ UNCHANGED <<cfg, last_exit, rpc, subproc, proc, owner, out>>

----
Next ==
    \/ \E r \in Req : try_lock_Popen(r)
    \/ \E r \in Req : try_lock_Popen_fails(r)
    \/ \E r \in Req : try_lock_readline(r)
    \/ \E r \in Req : try_lock_wait(r)
    \/ \E r \in Req : try_lock_except(r)
    \/ \E r \in Req : unlock_send(r)
    \/ \E r \in Req : unlock_noop(r)
    \/ \E r \in Req : unlock_done(r)
    \/ \E r \in Req : die(r)
    \/ \E h \in Proc : holder_start(h)
    \/ \E h \in Proc : holder_open_fails(h)
    \/ \E h \in Proc : holder_flock(h)
    \/ \E h \in Proc : holder_flock_fails(h)
    \/ \E h \in Proc : holder_granted(h)
    \/ \E h \in Proc : alarm_handler(h)
    \/ \E h \in Proc : alarm_EINTR(h)
    \/ \E h \in Proc : alarm_restart(h)
    \/ \E h \in Proc : holder_reset(h)
    \/ \E h \in Proc : holder_wait_ends(h)
    \/ \E h \in Proc : holder_pause(h)
    \/ \E h \in Proc : holder_unlock(h)
    \/ \E h \in Proc : watcher(h)

Spec == Init /\ [][Next]_vars

----
\* timedflock2 alone, with the progress the operating system guarantees

Init2 == Init /\ \A r \in Req : cfg[r].gen = 2

Next2 ==
    \/ \E r \in Req : try_lock_Popen(r)
    \/ \E r \in Req : try_lock_Popen_fails(r)
    \/ \E r \in Req : try_lock_readline(r)
    \/ \E r \in Req : try_lock_wait(r)
    \/ \E r \in Req : try_lock_except(r)
    \/ \E r \in Req : unlock_send(r)
    \/ \E r \in Req : unlock_noop(r)
    \/ \E r \in Req : unlock_done(r)
    \/ \E r \in Req : die(r)
    \/ \E h \in Proc : holder_start(h)
    \/ \E h \in Proc : holder_open_fails(h)
    \/ \E h \in Proc : holder_flock(h)
    \/ \E h \in Proc : holder_flock_fails(h)
    \/ \E h \in Proc : holder_granted(h)
    \/ \E h \in Proc : alarm_handler(h)
    \/ \E h \in Proc : alarm_EINTR(h)
    \/ \E h \in Proc : alarm_restart(h)
    \/ \E h \in Proc : holder_reset(h)
    \/ \E h \in Proc : holder_wait_ends(h)
    \/ \E h \in Proc : watcher(h)

\* Every thread that can take its next step, and every blocking call that
\* can return, eventually does.  Nothing is assumed about what callers do
\* (__enter__, __exit__), about failures (exceptions, death of a process)
\* or about how an interrupted flock ends (EINTR or restart).
Fairness2 ==
    /\ \A r \in Req : WF_vars(try_lock_readline(r))
    /\ \A r \in Req : WF_vars(try_lock_wait(r))
    /\ \A r \in Req : WF_vars(unlock_done(r))
    /\ \A h \in Proc : WF_vars(holder_start(h))
    /\ \A h \in Proc : WF_vars(holder_flock(h))
    /\ \A h \in Proc : WF_vars(holder_granted(h))
    /\ \A h \in Proc : WF_vars(holder_reset(h))
    /\ \A h \in Proc : WF_vars(holder_wait_ends(h))
    /\ \A h \in Proc : WF_vars(watcher(h))

FairSpec2 == Init2 /\ [][Next2]_vars /\ Fairness2

----
\* timedflock (first generation) alone, with the progress the operating
\* system guarantees

Init1 == Init /\ \A r \in Req : cfg[r].gen = 1

Next1 ==
    \/ \E r \in Req : try_lock_Popen(r)
    \/ \E r \in Req : try_lock_Popen_fails(r)
    \/ \E r \in Req : try_lock_readline(r)
    \/ \E r \in Req : try_lock_wait(r)
    \/ \E r \in Req : try_lock_except(r)
    \/ \E r \in Req : unlock_send(r)
    \/ \E r \in Req : unlock_noop(r)
    \/ \E r \in Req : unlock_done(r)
    \/ \E r \in Req : die(r)
    \/ \E h \in Proc : holder_start(h)
    \/ \E h \in Proc : holder_open_fails(h)
    \/ \E h \in Proc : holder_flock(h)
    \/ \E h \in Proc : holder_flock_fails(h)
    \/ \E h \in Proc : holder_granted(h)
    \/ \E h \in Proc : alarm_handler(h)
    \/ \E h \in Proc : alarm_EINTR(h)
    \/ \E h \in Proc : alarm_restart(h)
    \/ \E h \in Proc : holder_reset(h)
    \/ \E h \in Proc : holder_pause(h)
    \/ \E h \in Proc : holder_unlock(h)
    \/ \E h \in Proc : watcher(h)

\* As Fairness2: every thread that can take its next step, and every
\* blocking call that can return, eventually does; nothing is assumed
\* about callers, failures, or how an interrupted flock ends.
Fairness1 ==
    /\ \A r \in Req : WF_vars(try_lock_readline(r))
    /\ \A r \in Req : WF_vars(try_lock_wait(r))
    /\ \A r \in Req : WF_vars(unlock_done(r))
    /\ \A h \in Proc : WF_vars(holder_start(h))
    /\ \A h \in Proc : WF_vars(holder_flock(h))
    /\ \A h \in Proc : WF_vars(holder_granted(h))
    /\ \A h \in Proc : WF_vars(holder_reset(h))
    /\ \A h \in Proc : WF_vars(holder_pause(h))
    /\ \A h \in Proc : WF_vars(holder_unlock(h))
    /\ \A h \in Proc : WF_vars(watcher(h))

FairSpec1 == Init1 /\ [][Next1]_vars /\ Fairness1

----
\* Both generations with requesters without timeout (no timer is ever
\* armed), with the progress the operating system guarantees

InitNT == Init /\ \A r \in Req : cfg[r].timeout = NoTimeout

NextNT ==
    \/ \E r \in Req : try_lock_Popen(r)
    \/ \E r \in Req : try_lock_Popen_fails(r)
    \/ \E r \in Req : try_lock_readline(r)
    \/ \E r \in Req : try_lock_wait(r)
    \/ \E r \in Req : try_lock_except(r)
    \/ \E r \in Req : unlock_send(r)
    \/ \E r \in Req : unlock_noop(r)
    \/ \E r \in Req : unlock_done(r)
    \/ \E r \in Req : die(r)
    \/ \E h \in Proc : holder_start(h)
    \/ \E h \in Proc : holder_open_fails(h)
    \/ \E h \in Proc : holder_flock(h)
    \/ \E h \in Proc : holder_flock_fails(h)
    \/ \E h \in Proc : holder_granted(h)
    \/ \E h \in Proc : holder_reset(h)
    \/ \E h \in Proc : holder_wait_ends(h)
    \/ \E h \in Proc : holder_pause(h)
    \/ \E h \in Proc : holder_unlock(h)
    \/ \E h \in Proc : watcher(h)

FairnessNT ==
    /\ \A r \in Req : WF_vars(try_lock_readline(r))
    /\ \A r \in Req : WF_vars(try_lock_wait(r))
    /\ \A r \in Req : WF_vars(unlock_done(r))
    /\ \A h \in Proc : WF_vars(holder_start(h))
    /\ \A h \in Proc : WF_vars(holder_flock(h))
    /\ \A h \in Proc : WF_vars(holder_granted(h))
    /\ \A h \in Proc : WF_vars(holder_reset(h))
    /\ \A h \in Proc : WF_vars(holder_wait_ends(h))
    /\ \A h \in Proc : WF_vars(holder_pause(h))
    /\ \A h \in Proc : WF_vars(holder_unlock(h))
    /\ \A h \in Proc : WF_vars(watcher(h))

FairSpecNT == InitNT /\ [][NextNT]_vars /\ FairnessNT

----
\* Signals from outside.  A SIGINT reaches a holder (Ctrl-C at the terminal
\* goes to every process of the foreground group, or kill -INT).  Only
\* requesters without timeout are considered, so no timer is ever armed.

\* timedflock installs _handler for SIGINT: it prints and returns.  A
\* blocked flock then fails with EINTR (Python 2, Python 3 before 3.5),
\* which the bare except turns into locked = False, or is called again
\* (PEP 475); signal.pause() returns; elsewhere nothing changes
interrupt_handled(h) ==
    /\ Alive(h)
    /\ gen(h) = 1
    /\ \/ /\ hpc[h] = "blocked"
          /\ locked' = [locked EXCEPT ![h] = FALSE]
          /\ errno' = [errno EXCEPT ![h] = "EINTR"]
          /\ hpc' = [hpc EXCEPT ![h] = "reset"]
       \/ /\ hpc' = [hpc EXCEPT ![h] = AfterHandler(h)]
          /\ UNCHANGED <<locked, errno>>
    /\ UNCHANGED <<cfg, last_exit, rpc, subproc, proc, owner, held, timer,
                   stdin, out, exit_event, wpc, status>>

\* timedflock2 installs no handler for SIGINT: Python's default handler
\* raises KeyboardInterrupt in the main thread.  Inside the try block
\* around flock the bare except catches it: locked = False.  Anywhere
\* else it is not caught and the process ends with status 1
interrupt_raises(h) ==
    /\ Alive(h)
    /\ gen(h) = 2
    /\ IF hpc[h] = "blocked"
       THEN /\ locked' = [locked EXCEPT ![h] = FALSE]
            /\ errno' = [errno EXCEPT ![h] = "KeyboardInterrupt"]
            /\ hpc' = [hpc EXCEPT ![h] = "reset"]
            /\ UNCHANGED <<held, timer, stdin, exit_event, wpc, status>>
       ELSE Exited(h, "exit1")
    /\ UNCHANGED <<cfg, last_exit, rpc, subproc, proc, owner, out>>

NextSig ==
    \/ \E r \in Req : try_lock_Popen(r)
    \/ \E r \in Req : try_lock_Popen_fails(r)
    \/ \E r \in Req : try_lock_readline(r)
    \/ \E r \in Req : try_lock_wait(r)
    \/ \E r \in Req : try_lock_except(r)
    \/ \E r \in Req : unlock_send(r)
    \/ \E r \in Req : unlock_noop(r)
    \/ \E r \in Req : unlock_done(r)
    \/ \E r \in Req : die(r)
    \/ \E h \in Proc : holder_start(h)
    \/ \E h \in Proc : holder_open_fails(h)
    \/ \E h \in Proc : holder_flock(h)
    \/ \E h \in Proc : holder_flock_fails(h)
    \/ \E h \in Proc : holder_granted(h)
    \/ \E h \in Proc : holder_reset(h)
    \/ \E h \in Proc : holder_wait_ends(h)
    \/ \E h \in Proc : holder_pause(h)
    \/ \E h \in Proc : holder_unlock(h)
    \/ \E h \in Proc : watcher(h)
    \/ \E h \in Proc : interrupt_handled(h)
    \/ \E h \in Proc : interrupt_raises(h)

SpecSig == InitNT /\ [][NextSig]_vars

TypeOK ==
    /\ cfg \in [Req -> Configs]
    /\ rpc \in [Req -> {"idle", "readline", "wait", "unlocking", "dead"}]
    /\ subproc \in [Req -> Proc \cup {None}]
    /\ proc \in [Req -> Proc \cup {None}]
    /\ last_exit \in [Req -> {"none", "noop", "released", "raised"}]
    /\ owner \in [Proc -> Req \cup {None}]
    /\ hpc \in [Proc -> {"unborn", "start", "call", "blocked", "reset",
                         "wait", "topause", "paused", "unlock", "exited"}]
    /\ locked \in [Proc -> BOOLEAN]
    /\ errno \in [Proc -> {"none", "ok", "EWOULDBLOCK", "EINTR", "ENOLCK",
                           "KeyboardInterrupt"}]
    /\ held \in [Proc -> {"none", "SH", "EX"}]
    /\ timer \in [Proc -> BOOLEAN]
    /\ stdin \in [Proc -> {"open", "quit", "eof"}]
    /\ out \in [Proc -> Seq({SentinelWritten})]
    /\ exit_event \in [Proc -> BOOLEAN]
    /\ wpc \in [Proc -> {"read", "done"}]
    /\ status \in [Proc -> {"running", "exit0", "exit1", "killed"}]

----
\* Properties

\* the requester's acquire ended with locked() true and it has not called
\* release since
LockedNotReleased(r) ==
    rpc[r] # "dead" /\ subproc[r] # None /\ rpc[r] # "unlocking"

Exclusive(r) == ~cfg[r].shared

\* C1: mutual exclusion.  A holder with an exclusive flock excludes every
\* other holder of the lock file, so among holders spawned for EXCLUSIVE
\* requesters at most one holds the lock; and at most one timedflock2
\* requester in EXCLUSIVE mode is in the state "acquire ended with locked()
\* true, release not yet called".
C1_MutualExclusion ==
    /\ \A g, h \in Proc :
          g # h /\ held[g] = "EX" => held[h] = "none"
    /\ Cardinality({r \in Req : cfg[r].gen = 2 /\ Exclusive(r)
                                  /\ LockedNotReleased(r)}) <= 1

\* C1 witness: two timedflock2 requesters in EXCLUSIVE mode ran acquire at
\* the same time; one ended locked, the other's holder is waiting in flock
C1_Witness ==
    \E r1, r2 \in Req :
        /\ r1 # r2
        /\ cfg[r1].gen = 2 /\ cfg[r2].gen = 2
        /\ Exclusive(r1) /\ Exclusive(r2)
        /\ LockedNotReleased(r1)
        /\ held[subproc[r1]] = "EX"
        /\ rpc[r2] = "readline"
        /\ hpc[proc[r2]] = "blocked"

\* some other holder, spawned for an EXCLUSIVE requester, holds the lock
ExclusiveHeldBeside(h) ==
    \E g \in Proc \ {h} : held[g] # "none" /\ ~hcfg(g).shared

\* some holder spawned for a SHARED requester holds the lock
SharedHeld == \E g \in Proc : held[g] # "none" /\ hcfg(g).shared

\* a SHARED holder is refused (LOCK_NB) or made to wait in this step
SharedTurnedAway(h) ==
    /\ hpc[h] = "call"
    /\ hcfg(h).shared
    /\ \/ hpc'[h] = "blocked"
       \/ errno'[h] = "EWOULDBLOCK"

\* a holder without timeout stops waiting in flock in this step
WaiterLeaves(h) ==
    /\ hpc[h] = "blocked"
    /\ hcfg(h).timeout = NoTimeout
    /\ hpc'[h] # "blocked"

\* the acquire of requester r ends with locked() true in this step
AcquireEndsLocked(r) ==
    /\ rpc[r] \in {"readline", "wait"}
    /\ rpc'[r] = "idle"
    /\ subproc'[r] # None

C2_Step ==
    /\ \A h \in Proc : SharedTurnedAway(h) => ExclusiveHeldBeside(h)
    /\ \A h \in Proc :
          WaiterLeaves(h) => \/ hpc'[h] = "exited"
                             \/ held'[h] = lock_op(h) /\ CanGrant(h)
    /\ \A r \in Req :
          cfg[r].gen = 2 /\ Exclusive(r) /\ AcquireEndsLocked(r)
             => ~SharedHeld'

C2_State ==
    /\ \A r \in Req :
          cfg[r].gen = 2 /\ Exclusive(r) /\ LockedNotReleased(r)
             => ~SharedHeld
    /\ \A h \in Proc :
          hpc[h] = "blocked" => ~NonBlocking(h)

AttemptFailed(h) == errno[h] \in {"EWOULDBLOCK", "EINTR", "ENOLCK"}

C3_State ==
    \A h \in Proc :
        /\ Len(out[h]) <= 1
        /\ AttemptFailed(h) => out[h] = <<>>

C3_Step ==
    \A h \in Proc :
        /\ out'[h] # out[h] =>
              /\ out[h] = <<>>
              /\ out'[h] = <<Sentinel>>
              /\ errno[h] = "ok"
              /\ held[h] = lock_op(h)
              /\ held'[h] = held[h]
        /\ AttemptFailed(h) =>
              \/ errno'[h] = errno[h]
              \/ hpc'[h] = "exited" /\ out'[h] = <<>>

\* C3: in both generations a holder writes at most one line, the line is
\* 'locked\n', and it is written only after flock was granted to this
\* holder and while the holder holds the lock; a holder whose flock call
\* was refused, interrupted or failed writes nothing up to its exit.
C3_SentinelOnlyWhenHeld == []C3_State /\ [][C3_Step]_vars

\* C3 witness: one holder has written the sentinel and holds the lock
\* while another holder, refused by LOCK_NB, is about to exit with nothing
\* written
C3_Witness ==
    \E g, h \in Proc :
        /\ out[g] = <<Sentinel>> /\ held[g] # "none"
        /\ errno[h] = "EWOULDBLOCK" /\ hpc[h] = "reset" /\ out[h] = <<>>

\* the _unlock of a timedflock2 requester returns in this step
UnlockReturning(r) ==
    /\ cfg[r].gen = 2
    /\ rpc[r] = "unlocking"
    /\ rpc'[r] = "idle"

\* holder h is refused by LOCK_NB in this step
Denied(h) == errno[h] = "none" /\ errno'[h] = "EWOULDBLOCK"

\* g holds a lock that conflicts with what h asks for
Conflicts(g, h) ==
    \/ held[g] = "EX"
    \/ held[g] = "SH" /\ lock_op(h) = "EX"

C4_Step ==
    /\ \A r \in Req :
          UnlockReturning(r) =>
              /\ hpc'[subproc[r]] = "exited"
              /\ held'[subproc[r]] = "none"
              /\ subproc'[r] = None
    /\ \A h \in Proc :
          Denied(h) => \E g \in Proc \ {h} : Alive(g) /\ Conflicts(g, h)

C4_State == \A h \in Proc : ~Alive(h) => held[h] = "none"

\* C4: when timedflock2's _unlock returns after talking to a live holder,
\* that holder's process has exited and holds no flock; a process that has
\* exited never holds the lock, and a non-blocking flock is refused only
\* because of a holder that is alive at that moment.
C4_ReleaseCompletes == []C4_State /\ [][C4_Step]_vars

\* C4 witness: a timedflock2 requester has released its holder h (h wrote
\* the sentinel and exited with status 0) and then, in a non-blocking
\* acquire of its own, spawned holder g, which was granted the lock
C4_Witness ==
    \E r \in Req, h, g \in Proc :
        /\ cfg[r].gen = 2 /\ cfg[r].timeout = 0 /\ Exclusive(r)
        /\ owner[h] = r /\ status[h] = "exit0" /\ out[h] = <<Sentinel>>
        /\ owner[g] = r /\ g > h
        /\ held[g] = "EX" /\ subproc[r] = g

\* h is alive and the requester that spawned it is dead
Orphan(h) == Alive(h) /\ rpc[owner[h]] = "dead"

\* beside g the lock is held, and only by holders of dead requesters
OnlyOrphansHold(g) ==
    /\ \E h \in Proc \ {g} : held[h] # "none"
    /\ \A h \in Proc \ {g} : held[h] # "none" => rpc[owner[h]] = "dead"

\* beside g a holder of a live requester holds the lock
LiveHolderBeside(g) ==
    \E h \in Proc \ {g} : held[h] # "none" /\ rpc[owner[h]] # "dead"

\* C5: crash safety (timedflock2).  A holder whose requester has died
\* eventually terminates, which frees its flock; and an EXCLUSIVE holder
\* that waits in flock for a lock held only by holders of dead requesters
\* is eventually granted the lock, unless its own process ends first, its
\* own timeout interrupts it, or a holder of a live requester takes the
\* lock.
C5_CrashSafety ==
    /\ \A h \in Proc : Orphan(h) ~> ~Alive(h)
    /\ \A g \in Proc :
          (hpc[g] = "blocked" /\ ~hcfg(g).shared /\ OnlyOrphansHold(g))
             ~> \/ held[g] = "EX"
                \/ ~Alive(g)
                \/ errno[g] = "EINTR"
                \/ LiveHolderBeside(g)

\* C5 witness: the requester of h died while h held the lock (h had
\* written the sentinel and was ended by its watcher with status 1), and
\* the EXCLUSIVE acquire of another requester, spawned later and with no
\* timeout, has ended locked
C5_Witness ==
    \E h, g \in Proc :
        /\ owner[h] # None /\ owner[g] # None
        /\ rpc[owner[h]] = "dead"
        /\ status[h] = "exit1" /\ out[h] = <<Sentinel>>
        /\ g > h /\ owner[g] # owner[h]
        /\ hcfg(g).timeout = NoTimeout
        /\ held[g] = "EX" /\ subproc[owner[g]] = g

\* requester r is inside an acquire with timeout > 0 whose holder has
\* armed the timer and is about to call flock or is blocked in it
TimedAttempt(r) ==
    /\ rpc[r] = "readline"
    /\ cfg[r].timeout # NoTimeout /\ cfg[r].timeout > 0
    /\ hpc[proc[r]] \in {"call", "blocked"}
    /\ timer[proc[r]]

\* C6: the timeout is always enforced (timedflock2).  An acquire with
\* timeout > 0 whose holder has armed the timer eventually returns (with
\* the lock, or with locked() false and the holder gone), wherever the
\* holder is when the timer fires.
C6_TimeoutEnforced ==
    \A r \in Req : TimedAttempt(r) ~> rpc[r] # "readline"

\* h was spawned for an acquire with timeout = 0
ZeroTimeout(h) == owner[h] # None /\ hcfg(h).timeout = 0

\* a holder that is alive holds a lock that conflicts with h's request
HeldAgainst(h) == \E g \in Proc \ {h} : Alive(g) /\ Conflicts(g, h)

C7_State ==
    \A h \in Proc :
        ZeroTimeout(h) =>
            /\ ~timer[h]
            /\ hpc[h] # "blocked"
            /\ AttemptFailed(h) => out[h] = <<>> /\ held[h] = "none"

C7_Step ==
    /\ \A h \in Proc :
          (ZeroTimeout(h) /\ hpc[h] = "call" /\ HeldAgainst(h)
             /\ hpc'[h] # "call")
          => \/ hpc'[h] = "exited"
             \/ /\ hpc'[h] = "reset"
                /\ ~locked'[h]
                /\ AttemptFailed(h)'
    /\ \A h \in Proc :
          (ZeroTimeout(h) /\ AttemptFailed(h) /\ hpc'[h] # hpc[h])
          => hpc'[h] = "exited" /\ out'[h] = <<>>
    /\ \A r \in Req :
          (cfg[r].gen = 2 /\ cfg[r].timeout = 0
             /\ rpc[r] \in {"readline", "wait"} /\ rpc'[r] = "idle"
             /\ out[proc[r]] = <<>>)
          => subproc'[r] = None

\* C7: non-blocking mode.  A holder spawned with timeout = 0 never has
\* the timer armed and never waits in flock; when it calls flock while a
\* live holder holds a conflicting lock the call fails in that step, the
\* holder's next step is its exit with nothing written, and a timedflock2
\* acquire whose holder wrote nothing returns with locked() false.
C7_NonBlocking == []C7_State /\ [][C7_Step]_vars

\* C7 witness: the holder of a timedflock2 acquire with timeout = 0 has
\* just been refused by LOCK_NB while another holder holds the lock
C7_Witness ==
    \E h \in Proc :
        /\ ZeroTimeout(h) /\ gen(h) = 2
        /\ errno[h] = "EWOULDBLOCK" /\ hpc[h] = "reset" /\ ~locked[h]
        /\ rpc[owner[h]] = "readline" /\ proc[owner[h]] = h
        /\ \E g \in Proc \ {h} : held[g] = "EX"

\* g is being released: its requester is inside _unlock for it
BeingReleased(g) ==
    \E r \in Req : rpc[r] = "unlocking" /\ subproc[r] = g

\* a live holder that is not being released holds a lock that conflicts
\* with h's request
ContendedBy(h) ==
    \E g \in Proc \ {h} :
        Alive(g) /\ Conflicts(g, h) /\ ~BeingReleased(g)

\* h waits in flock without timeout and whatever stands against it is
\* being released (or nothing stands against it any more)
WaitsForRelease(h) ==
    /\ hpc[h] = "blocked"
    /\ hcfg(h).timeout = NoTimeout
    /\ ~ContendedBy(h)

\* C8: release unblocks a waiter (timedflock2).  An _unlock that has sent
\* the release command eventually returns; and a holder that waits in
\* flock without timeout for a lock that is being released, or is free
\* already, is eventually granted it, writes the sentinel, and its
\* requester's acquire returns with locked() true on this holder, unless
\* the holder's process is ended first (requester died or raised) or
\* another holder takes the lock.
C8_ReleaseUnblocks ==
    /\ \A r \in Req : rpc[r] = "unlocking" ~> rpc[r] # "unlocking"
    /\ \A h \in Proc :
          WaitsForRelease(h)
             ~> \/ ~Alive(h)
                \/ ContendedBy(h)
                \/ /\ owner[h] # None
                   /\ subproc[owner[h]] = h
                   /\ held[h] = lock_op(h)

\* C8 witness: requester A is inside _unlock and its holder, which held
\* the lock exclusively, has just exited with status 0, while the holder
\* of requester B is blocked in flock without timeout
C8_Witness ==
    \E a, b \in Req :
        /\ a # b
        /\ rpc[a] = "unlocking"
        /\ Exclusive(a) /\ Exclusive(b)
        /\ status[subproc[a]] = "exit0" /\ out[subproc[a]] = <<Sentinel>>
        /\ rpc[b] = "readline"
        /\ cfg[b].timeout = NoTimeout
        /\ hpc[proc[b]] = "blocked"

\* r holds nothing that a release could act on: no handle, or (timedflock
\* after a failed acquire) the handle of a child that has exited
NothingToRelease(r) ==
    subproc[r] = None \/ ~Alive(subproc[r])

\* this step is a call of __exit__ / _unlock by r that ends at once
ExitCallEnds(r) ==
    /\ rpc[r] = "idle" /\ rpc'[r] = "idle"
    /\ last_exit'[r] \in {"noop", "raised"}
    /\ last_exit'[r] # last_exit[r]

\* this step delivers a release command to holder h
ReleaseSent(h) ==
    \/ stdin[h] # "quit" /\ stdin'[h] = "quit"
    \/ hpc[h] # "unlock" /\ hpc'[h] = "unlock"

C9_State ==
    \A r \in Req :
        /\ last_exit[r] # "raised"
        /\ last_exit[r] = "noop" /\ rpc[r] = "idle" => ~IsLocked(r)

C9_Step ==
    /\ \A r \in Req :
          \* with nothing to release the call is not a release
          /\ rpc[r] = "idle" /\ NothingToRelease(r)
                => rpc'[r] # "unlocking"
          \* and it changes nothing but the handle, which becomes None
          /\ ExitCallEnds(r) =>
                /\ NothingToRelease(r)
                /\ last_exit'[r] = "noop"
                /\ subproc'[r] = None
                /\ pvars' = pvars /\ out' = out /\ owner' = owner
                /\ \A q \in Req \ {r} : subproc'[q] = subproc[q]
    /\ \A h \in Proc :
          \* a release command goes only to a live holder whose requester
          \* holds its handle and starts a release in this very step
          ReleaseSent(h) =>
              \E r \in Req : /\ subproc[r] = h /\ Alive(h)
                             /\ rpc[r] = "idle" /\ rpc'[r] = "unlocking"

\* C9: idempotent release.  A call of timedflock2's _unlock, or of __exit__
\* of either generation, on an object that holds nothing (after a release,
\* after a failed acquire, or never entered) never raises, sends no release
\* command to any process, changes no process, and leaves locked() false.
C9_IdempotentRelease == []C9_State /\ [][C9_Step]_vars

\* C9 witness: a requester that acquired and released (its holder wrote
\* the sentinel and exited with status 0) has called __exit__ once more,
\* and the call was a no-op
C9_Witness ==
    \E r \in Req : \E h \in Proc :
        /\ owner[h] = r
        /\ out[h] = <<Sentinel>> /\ status[h] = "exit0"
        /\ rpc[r] = "idle"
        /\ last_exit[r] = "noop"
        /\ ~IsLocked(r)

\* holder h holds the advisory lock: granted and not yet released
HoldsLock(h) == held[h] # "none"

\* C10 as stated: in every state, locked() is true exactly when a holder
\* process of the requester holds the advisory lock
C10_HandleIffHeld ==
    \A r \in Req :
        IsLocked(r) <=> \E h \in Proc : owner[h] = r /\ HoldsLock(h)

\* the handle of a timedflock2 requester names a holder of its own that
\* read back the sentinel and that still holds the lock in the requested
\* mode, unless the requester is inside _unlock for it
C10_State ==
    \A r \in Req :
        cfg[r].gen = 2 /\ IsLocked(r) =>
            LET h == subproc[r] IN
                /\ owner[h] = r
                /\ out[h] = <<Sentinel>>
                /\ \/ Alive(h) /\ held[h] = lock_op(h)
                   \/ rpc[r] = "unlocking"

\* the handle is taken only for a holder that holds the lock, and it is
\* dropped while the holder still holds the lock only when the requester
\* dies or when a further _try_lock on the same object ends
C10_Step ==
    \A r \in Req : \A h \in Proc :
        cfg[r].gen = 2 =>
            /\ subproc[r] # h /\ subproc'[r] = h =>
                  /\ rpc[r] = "readline" /\ proc[r] = h
                  /\ held[h] = lock_op(h) /\ held'[h] = lock_op(h)
            /\ subproc[r] = h /\ subproc'[r] # h /\ HoldsLock(h)' =>
                  \/ rpc'[r] = "dead"
                  \/ rpc[r] \in {"readline", "wait"} /\ rpc'[r] = "idle"
                  \/ rpc[r] = "idle" /\ rpc'[r] = "idle"
                        /\ last_exit'[r] = "none"

\* C10 (amended): for timedflock2, locked() true implies that the holder
\* named by the handle acquired the lock and has not released it, except
\* while _unlock waits for that holder to exit.  The converse fails during
\* the handshake (lock granted, sentinel not yet read), for the holder of
\* a requester that died, and after a further __enter__ on an object that
\* is already locked.
C10_HandleImpliesHeld == []C10_State /\ [][C10_Step]_vars

\* C10 witness: a timedflock2 requester at rest has a handle and the
\* holder it names holds the lock
C10_Witness ==
    \E r \in Req :
        /\ cfg[r].gen = 2
        /\ rpc[r] = "idle"
        /\ IsLocked(r)
        /\ HoldsLock(subproc[r])

\* the holders whose owner changes in this step: the children spawned
Spawned == {h \in Proc : owner'[h] # owner[h]}

\* this step ends an acquire of r that had read a line other than the
\* sentinel (or end of stream) and was inside proc.wait()
FailedAcquireEnds(r) == rpc[r] = "wait" /\ rpc'[r] = "idle"

C11_State ==
    \A r \in Req :
        rpc[r] = "wait" =>
            /\ proc[r] # None /\ owner[proc[r]] = r
            /\ out[proc[r]] # <<Sentinel>>

C11_Step ==
    /\ \A r \in Req :
          cfg[r].gen = 2 /\ FailedAcquireEnds(r) =>
              /\ \A h \in Proc : proc[r] = h => ~Alive(h)'
              /\ ~IsLocked(r)'
              /\ proc'[r] = None
    \* one child per call: a child is spawned only by the step that
    \* enters _try_lock, and no other step of the call spawns one
    /\ Cardinality(Spawned) <= 1
    /\ \A h \in Spawned :
          /\ owner[h] = None
          /\ rpc[owner'[h]] = "idle" /\ rpc'[owner'[h]] = "readline"
          /\ proc'[owner'[h]] = h

\* C11: failed acquisition leaves nothing behind (timedflock2).  When the
\* line read is not the sentinel, _try_lock waits for the child to exit
\* and returns with locked() false and the child not alive; each call of
\* _try_lock spawns exactly one child, when it is entered.
C11_FailedAcquireClean == []C11_State /\ [][C11_Step]_vars

\* C11 witness: a timedflock2 acquire has returned without the lock: its
\* child ended by itself with nothing written and the object is not locked
C11_Witness ==
    \E r \in Req : \E h \in Proc :
        /\ cfg[r].gen = 2
        /\ owner[h] = r
        /\ status[h] = "exit0" /\ out[h] = <<>>
        /\ rpc[r] = "idle"
        /\ proc[r] = None
        /\ ~IsLocked(r)

\* this step is _try_lock of r returning
TryLockReturns(r) == rpc[r] \in {"readline", "wait"} /\ rpc'[r] = "idle"

\* C12: exceptions in _try_lock (both generations).  _try_lock returns
\* either with the handle of the child whose sentinel line it has read, or
\* with locked() false and the child it started killed or exited.
C12_ExceptionClean ==
    [][\A r \in Req : \A h \in Proc :
          TryLockReturns(r) /\ proc[r] = h =>
              \/ /\ rpc[r] = "readline"
                 /\ out[h] = <<Sentinel>>
                 /\ subproc'[r] = h
              \/ /\ ~IsLocked(r)'
                 /\ ~Alive(h)'
      ]_vars

\* h has written the sentinel and its process is alive
WroteSentinel(h) == Alive(h) /\ out[h] = <<Sentinel>>

\* the release command has reached h: timedflock2 has read the token
\* 'quit' and set the event, timedflock's signal.pause() was ended by the
\* SIGINT of _unlock
Released(h) ==
    \/ gen(h) = 2 /\ stdin[h] = "quit" /\ exit_event[h]
    \/ gen(h) = 1 /\ hpc[h] = "unlock"

\* this step delivers the release command of h's requester to h
ReleaseArrives(h) ==
    \E r \in Req : /\ owner[h] = r /\ subproc[r] = h
                   /\ rpc[r] = "idle" /\ rpc'[r] = "unlocking"

C13_State ==
    \A h \in Proc :
        WroteSentinel(h) =>
            /\ held[h] = lock_op(h)
            /\ ~timer[h]
            /\ hpc[h] \in {"wait", "topause", "paused", "unlock"}

C13_Step ==
    \A h \in Proc :
        WroteSentinel(h) =>
            \* the lock is given up only by the end of the process, and
            \* the process ends by itself only after the release command
            \* or, through the watcher, at end of stream on stdin
            /\ held'[h] # held[h] => ~Alive(h)'
            /\ ~Alive(h)' =>
                  \/ Released(h) /\ status'[h] = "exit0"
                  \/ stdin[h] = "eof" /\ status'[h] = "exit1"
                  \/ status'[h] = "killed"
            \* the token, the event and the end of signal.pause() come
            \* from the requester's _unlock and from nothing else
            /\ stdin'[h] = "quit" /\ stdin[h] # "quit" => ReleaseArrives(h)
            /\ exit_event'[h] /\ ~exit_event[h] => stdin[h] = "quit"
            /\ hpc'[h] = "unlock" /\ hpc[h] # "unlock" => ReleaseArrives(h)
            /\ stdin'[h] = "eof" /\ stdin[h] = "open" /\ Alive(h)' =>
                  rpc'[owner[h]] = "dead"

\* C13: a holder that has written the sentinel holds the lock in the
\* requested mode, with the timer off, and stays alive until the release
\* command of its requester has reached it or its stdin is at end of
\* stream; nothing else in the holder makes it unlock or exit.  (A holder
\* killed from outside, by the except branch of _try_lock, is ended by
\* its requester, not by a step of its own.)
C13_HoldsUntilReleased == []C13_State /\ [][C13_Step]_vars

\* C13 witness: a timedflock holder inside signal.pause() and a timedflock2
\* holder inside its wait loop hold the lock together, both requesters at
\* rest with their handles
C13_Witness ==
    \E g, h \in Proc :
        /\ WroteSentinel(g) /\ gen(g) = 1 /\ hpc[g] = "paused"
        /\ WroteSentinel(h) /\ gen(h) = 2 /\ hpc[h] = "wait"
        /\ held[g] = "SH" /\ held[h] = "SH"
        /\ subproc[owner[g]] = g /\ subproc[owner[h]] = h
        /\ rpc[owner[g]] = "idle" /\ rpc[owner[h]] = "idle"

\* the main thread of h is between arming the timer and resetting it
InAttempt(h) == hpc[h] \in {"call", "blocked", "reset"}

\* C14: the timer is armed only when timeout > 0 and only during the lock
\* attempt: in every state an armed timer belongs to a holder with
\* timeout > 0 that is between setitimer(timeout) and setitimer(0), and a
\* holder that has written the sentinel (and waits for release) has its
\* timer off, so that no timer signal can reach it.
C14_TimerScoped ==
    \A h \in Proc :
        /\ timer[h] => owner[h] # None /\ ArmsTimer(h) /\ InAttempt(h)
        /\ out[h] # <<>> => ~timer[h]
        /\ hpc[h] \in {"wait", "topause", "paused", "unlock"} => ~timer[h]

\* C14 witness: a holder started with timeout > 0 has been granted the
\* lock while its timer was armed, has reset the timer and written the
\* sentinel, and waits for release
C14_Witness ==
    \E h \in Proc :
        /\ owner[h] # None
        /\ ArmsTimer(h)
        /\ WroteSentinel(h)
        /\ hpc[h] \in {"wait", "paused"}
        /\ ~timer[h]

C15_State ==
    \A h \in Proc :
        \* the event is set only for the token
        /\ exit_event[h] => stdin[h] = "quit"
        \* the token goes only to a holder that has written the sentinel
        /\ stdin[h] = "quit" => out[h] = <<Sentinel>> /\ status[h] # "exit1"

C15_Step ==
    \A h \in Proc :
        WroteSentinel(h) /\ gen(h) = 2 /\ ~Alive(h)' =>
            \/ stdin[h] = "quit" /\ exit_event[h] /\ status'[h] = "exit0"
            \/ stdin[h] = "eof" /\ ~exit_event[h] /\ status'[h] = "exit1"
            \/ status'[h] = "killed"

\* C15: the timedflock2 watcher tells release from parent death.  The
\* exit event is set only when the input was the token 'quit'; a waiting
\* holder then leaves its loop, the lock is freed and the process exits
\* with status 0.  At end of stream without the token a waiting holder
\* exits with status 1.  Neither outcome happens for the other input.
C15_WatcherDistinguishes ==
    /\ []C15_State
    /\ [][C15_Step]_vars
    /\ \A h \in Proc :
          /\ (stdin[h] = "quit" /\ Alive(h))
                ~> (status[h] = "exit0" /\ held[h] = "none")
          /\ (stdin[h] = "eof" /\ WroteSentinel(h))
                ~> (status[h] = "exit1" /\ held[h] = "none")

\* C15 witness: one holder that held the lock has exited with status 0
\* after the token, another with status 1 after its requester's death
C15_Witness ==
    \E g, h \in Proc :
        /\ out[g] = <<Sentinel>> /\ status[g] = "exit0"
        /\ out[h] = <<Sentinel>> /\ status[h] = "exit1"
        /\ rpc[owner[h]] = "dead"

\* h has given up its lock attempt because the flock call was interrupted
GaveUpInterrupted(h) ==
    /\ hpc[h] = "reset"
    /\ ~locked[h]
    /\ errno[h] \in {"EINTR", "KeyboardInterrupt"}

\* C16: only the holder's own timer makes an attempt fail by interruption.
\* A holder that has given up its attempt because flock was interrupted
\* (and will exit without the sentinel) had armed its timer; with timeout
\* absent no interruption makes it give up.
C16_OnlyTimerFails ==
    \A h \in Proc : GaveUpInterrupted(h) => ArmsTimer(h)

\* C17: first-generation release terminates.  An _unlock of timedflock
\* that has sent SIGINT to its live holder eventually returns (or the
\* requester dies), wherever the holder was between flushing the sentinel
\* and entering signal.pause() when the signal arrived.
C17_Gen1ReleaseTerminates ==
    \A r \in Req :
        (cfg[r].gen = 1 /\ rpc[r] = "unlocking") ~> rpc[r] # "unlocking"

\* C18: first-generation timeout is always enforced.  An acquire of
\* timedflock with timeout > 0 whose holder has armed the one-shot timer
\* eventually returns (or the requester dies), wherever the holder is
\* when the timer fires.
C18_Gen1TimeoutEnforced ==
    \A r \in Req :
        (cfg[r].gen = 1 /\ TimedAttempt(r)) ~> rpc[r] # "readline"

\* h has not written the sentinel and its requester is dead
OrphanedAttempt(h) ==
    /\ Alive(h)
    /\ out[h] = <<>>
    /\ rpc[owner[h]] = "dead"

C19_State ==
    \A h \in Proc :
        \* the watcher is reading stdin during the whole attempt
        /\ Alive(h) /\ out[h] = <<>> => wpc[h] = "read"
        \* and the death of the requester is end of stream for it
        /\ OrphanedAttempt(h) => stdin[h] = "eof"

C19_Step ==
    \A h \in Proc :
        OrphanedAttempt(h) =>
            /\ out'[h] = <<>>
            /\ hpc'[h] \notin {"wait", "topause", "paused", "unlock"}

\* C19: no orphan while attempting (both generations).  The watcher reads
\* stdin from before the lock attempt; a holder whose requester died
\* before the sentinel was written never writes it and never enters the
\* wait for release, and its process ends, which frees the lock if flock
\* was granted to it in between.
C19_NoOrphanWhileAttempting ==
    /\ []C19_State
    /\ [][C19_Step]_vars
    /\ \A h \in Proc :
          OrphanedAttempt(h) ~> (~Alive(h) /\ held[h] = "none")

\* C19 witness: the requester has died while its holder is blocked in
\* flock; end of stream is there for the watcher to read
C19_Witness ==
    \E h \in Proc :
        /\ hpc[h] = "blocked"
        /\ OrphanedAttempt(h)
        /\ ReadReturns(h)

\* the live holder processes spawned by object r
LiveHolders(r) == {h \in Proc : owner[h] = r /\ Alive(h)}

\* C20: one holder per object (timedflock2).  Whatever sequence of
\* __enter__ and __exit__ is called on an object, it has at most one live
\* holder process, and between calls every live holder of the object that
\* holds the lock is the one its handle names.
C20_OneHolderPerObject ==
    \A r \in Req :
        cfg[r].gen = 2 /\ rpc[r] # "dead" =>
            /\ Cardinality(LiveHolders(r)) <= 1
            /\ rpc[r] = "idle" =>
                  \A h \in LiveHolders(r) : HoldsLock(h) => subproc[r] = h

====
